---- MODULE Spec2Model ----
(***************************************************************************)
(* LangPilot: the agent turn loop of app/agent/runner.py (run_agent,       *)
(* _emit_new_messages, _invoke_agent), the thread memory operations of     *)
(* app/agent/memory.py and the waiting indicator of app/utils/spinner.py.  *)
(*                                                                         *)
(* Text is a sequence of one-character strings.  A message content is a    *)
(* record [isstr, text]: isstr says whether the Python object is a str,    *)
(* text is the str itself or, for another object, what str() gives.        *)
(***************************************************************************)
EXTENDS Integers, Sequences, FiniteSets, TLC

\* ------------------------------------------------------------------ bounds
MaxAppends == 2       \* messages the agent appends in one behaviour
MaxDispatches == 3    \* run_agent calls in one behaviour
MaxCursor == 4        \* cursors handed to _emit_new_messages lie in -2..MaxCursor
MaxProbeLen == 2      \* length of the message lists of the drain harness

TraceCap == 2000      \* runner.py: preview = content[:2000]
PreviewCap == 50      \* memory.py: preview = content[:50]

Threads == {"t1", "t2"}

\* ------------------------------------------------------------------ text
Whitespace == {" ", "\n", "\t"}

Min(a, b) == IF a < b THEN a ELSE b
Max(a, b) == IF a > b THEN a ELSE b

RECURSIVE LStrip(_)
LStrip(s) == IF s # <<>> /\ Head(s) \in Whitespace THEN LStrip(Tail(s)) ELSE s

RECURSIVE RStrip(_)
RStrip(s) ==
    IF s # <<>> /\ s[Len(s)] \in Whitespace THEN RStrip(SubSeq(s, 1, Len(s) - 1)) ELSE s

\* str.strip()
Strip(s) == RStrip(LStrip(s))

\* s[:n] for n >= 0
PyPrefix(s, n) == SubSeq(s, 1, Min(n, Len(s)))

\* first index (0-based) of the slice s[i:] of a list of length n
PySliceStart(i, n) == IF i < 0 THEN Max(n + i, 0) ELSE Min(i, n)

\* s[i:]
PySliceFrom(s, i) == SubSeq(s, PySliceStart(i, Len(s)) + 1, Len(s))

\* str.lower() on the tags the model uses
Lower(tag) ==
    CASE tag = "SYSTEM" -> "system"
      [] tag = "USER" -> "user"
      [] tag = "HUMAN" -> "human"
      [] tag = "AI" -> "ai"
      [] OTHER -> tag

\* ------------------------------------------------------------------ messages
Str(chars) == [isstr |-> TRUE, text |-> chars]
Obj(chars) == [isstr |-> FALSE, text |-> chars]

\* str(content), and content itself when it is a str
PyStr(content) == content.text

Msg(type, role, content) == [type |-> type, role |-> role, content |-> content]

\* what the agent appends in the turn loop model: a human message, an AI
\* message that is blank once stripped, an AI message with a list content
ExecMessages ==
    { Msg("human", "", Str(<<"a">>)),
      Msg("ai", "", Str(<<" ">>)),
      Msg("ai", "", Obj(<<"[", "]">>)) }

\* ------------------------------------------------------------------ state
VARIABLES
    checkpoints,       \* memory_checkpointer: thread -> messages, for threads with a checkpoint
    history_offsets,   \* _history_offsets: thread -> int, for threads with an entry
    pc,                \* where the foreground is: "input", "poll", "returned"; "probe"
    thread_id,         \* run_agent's thread_id
    show_trace,        \* run_agent's show_trace
    start_idx,         \* run_agent's start_idx
    trace_started,     \* run_agent's trace_started
    printed,           \* the third value of the last _emit_new_messages call
    spinner_active,    \* run_agent's spinner_active
    spinner,           \* the Spinner: [stop_event, alive, stops]
    worker,            \* the worker thread: "unstarted", "alive", "dead"
    result_box,        \* result_box: [kind, messages]
    stdout,            \* what the current operation has printed so far
    seen,              \* store positions the drains of the current operation looped over
    render_count,      \* thread -> position -> times a message at that position was printed
    phases,            \* the phases the current dispatch went through
    ret,               \* the last finished operation: [op, thread, status, value]
    pre,               \* at the start of the current operation: [offsets, len, after_fail, fail_offset]
    last_fail,         \* thread -> -1, or the stored offset before the thread's last dispatch, which failed
    failed_rendered,   \* thread -> positions printed by a dispatch that failed, since the last clear
    dispatches,        \* run_agent calls so far
    appended           \* messages the agent has appended so far

vars == << checkpoints, history_offsets, pc, thread_id, show_trace, start_idx,
           trace_started, printed, spinner_active, spinner, worker, result_box,
           stdout, seen, render_count, phases, ret, pre, last_fail, failed_rendered, dispatches, appended >>

\* dict.get(key, default)
DictGet(d, key, default) == IF key \in DOMAIN d THEN d[key] ELSE default

\* d[key] = value
DictSet(d, key, value) ==
    [k \in DOMAIN d \cup {key} |-> IF k = key THEN value ELSE d[k]]

\* mutant of DictDel: every entry goes, as with dict.clear()
DictDelAll(d, key) == [k \in {} |-> d[k]]

\* mutant of DictDel: only the newest message of the entry goes
DictDropLast(d, key) ==
    IF key \in DOMAIN d /\ d[key] # <<>>
    THEN [d EXCEPT ![key] = SubSeq(@, 1, Len(@) - 1)]
    ELSE d

\* del d[key]
DictDel(d, key) == [k \in DOMAIN d \ {key} |-> d[k]]

\* ------------------------------------------------------------------ memory.py
\* memory_checkpointer.get(config): the thread's checkpoint, None for a thread
\* without one, or an exception when fails
CheckpointGet(thread, fails) ==
    IF fails THEN [kind |-> "raises", messages |-> <<>>]
    ELSE IF thread \in DOMAIN checkpoints
    THEN [kind |-> "checkpoint", messages |-> checkpoints[thread]]
    ELSE [kind |-> "none", messages |-> <<>>]

\* mutant of GetMessagesOf: the exception of the read is not caught
GetMessagesUnguarded(read) ==
    IF read.kind = "raises" THEN [status |-> "raised", value |-> <<>>]
    ELSE [status |-> "ok", value |-> read.messages]

\* lines 43-49 of get_messages, given what the read gave: [status, value]
GetMessagesOf(read) ==
    IF read.kind = "raises" THEN [status |-> "ok", value |-> <<>>]
    ELSE IF read.kind = "none" THEN [status |-> "ok", value |-> <<>>]
    ELSE [status |-> "ok", value |-> read.messages]

\* get_messages(thread_id) when the read does not fail
get_messages(thread) == GetMessagesOf(CheckpointGet(thread, FALSE)).value

\* ------------------------------------------------------------------ stdout
Line(kind, pos, label, preview, suffix) ==
    [kind |-> kind, pos |-> pos, label |-> label, preview |-> preview, suffix |-> suffix]

TraceHeader == Line("header", -1, "", <<>>, FALSE)

\* ------------------------------------------------------------------ runner.py
\* mutant of ClampCursor: a negative cursor is not raised to 0
ClampCursorHighOnly(start, total) == IF start > total THEN total ELSE start

\* if start_idx < 0: start_idx = 0; if start_idx > total: start_idx = total
ClampCursor(start, total) ==
    LET low == IF start < 0 THEN 0 ELSE start
    IN  IF low > total THEN total ELSE low

\* the label of a message, from its role and type
RoleLabel(msg) ==
    LET msg_type == Lower(msg.type)
        msg_role == Lower(msg.role)
    IN  IF msg_role = "system" \/ msg_type = "system" THEN "system-prompt"
        ELSE IF msg_role = "user" \/ msg_type \in {"human", "user"} THEN "user-input"
        ELSE "model-response"

\* mutant of HasSuffix: a content of exactly the cap gets the suffix too
HasSuffixAtCap(content) == Len(content) >= TraceCap

\* whether the suffix is printed: len(content) > 2000 (line 56)
HasSuffix(content) == Len(content) > TraceCap

\* mutant of RenderMessage: a blank content gets its label printed too
RenderMessageBlankToo(msg, pos) ==
    LET content == Strip(PyStr(msg.content))
    IN  << Line("msg", pos, RoleLabel(msg), PyPrefix(content, TraceCap),
                HasSuffix(content)) >>

\* what the loop body prints for the message at store position pos: nothing for
\* a content that is blank once stripped
RenderMessage(msg, pos) ==
    LET content == Strip(PyStr(msg.content))
    IN  IF content # <<>>
        THEN << Line("msg", pos, RoleLabel(msg), PyPrefix(content, TraceCap),
                     HasSuffix(content)) >>
        ELSE <<>>

\* mutant of RenderFrom: the later messages of the slice are printed first
RECURSIVE RenderFromBackwards(_, _)
RenderFromBackwards(slice, pos) ==
    IF slice = <<>> THEN <<>>
    ELSE RenderFromBackwards(Tail(slice), pos + 1) \o RenderMessage(Head(slice), pos)

\* the loop of line 38 over messages[start_idx:], the first of them at position pos
RECURSIVE RenderFrom(_, _)
RenderFrom(slice, pos) ==
    IF slice = <<>> THEN <<>>
    ELSE RenderMessage(Head(slice), pos) \o RenderFrom(Tail(slice), pos + 1)

\* mutant of EmitFlag: the flag says whether a line was printed
EmitFlagIfPrinted(out) == out # <<>>

\* the third value returned when the cursor was below the total (line 59)
EmitFlag(out) == TRUE

\* mutant of NextCursor: the cursor the call started from is returned
NextCursorUnmoved(cursor, total) == cursor

\* the first value returned (lines 32 and 59)
NextCursor(cursor, total) == total

\* _emit_new_messages(thread_id, start_idx, trace_started), with what it prints
\* (out) and the store positions its loop visits (seen)
EmitNewMessages(thread, start, started) ==
    LET messages == get_messages(thread)
        total == Len(messages)
        cursor == ClampCursor(start, total)
        first == PySliceStart(cursor, total)
        body == RenderFrom(PySliceFrom(messages, cursor), first)
    IN  IF cursor >= total
        THEN [cursor |-> NextCursor(cursor, total), trace_started |-> started, printed |-> FALSE,
              out |-> <<>>, seen |-> <<>>]
        ELSE [cursor |-> NextCursor(cursor, total), trace_started |-> TRUE, printed |-> EmitFlag(body),
              out |-> (IF started THEN <<>> ELSE << TraceHeader >>) \o body,
              seen |-> [k \in 1..(total - first) |-> first + k - 1]]

\* positions among the printed lines
PrintedAt(out, pos) == Cardinality({k \in DOMAIN out : out[k].kind = "msg" /\ out[k].pos = pos})

\* the store positions of the messages printed in out
PrintedPositions(out) == {out[k].pos : k \in {j \in DOMAIN out : out[j].kind = "msg"}}

\* render_count after a drain of thread printed out
Counted(thread, out) ==
    [render_count EXCEPT ![thread] =
        [p \in 0..(MaxAppends - 1) |-> render_count[thread][p] + PrintedAt(out, p)]]

\* ------------------------------------------------------------------ spinner.py
\* stopped_in keeps the phases run_agent had gone through when stop() returned
NewSpinner == [stop_event |-> FALSE, alive |-> FALSE, stops |-> 0, stopped_in |-> <<>>]

\* Spinner.start()
SpinnerStart(sp) ==
    IF sp.alive THEN sp ELSE [sp EXCEPT !.stop_event = FALSE, !.alive = TRUE]

\* Spinner.stop(): sets the event and joins the animation thread
SpinnerStop(sp) ==
    [sp EXCEPT !.stop_event = TRUE, !.alive = FALSE, !.stops = @ + 1]

\* spinner.stop() called by run_agent when it had gone through the phases ph
StopRecorded(sp, ph) == [SpinnerStop(sp) EXCEPT !.stopped_in = ph]

\* ------------------------------------------------------------------ run_agent
EmptyBox == [kind |-> "empty", messages |-> <<>>, output |-> <<>>]

NoRet == [op |-> "none", thread |-> "", status |-> "", value |-> <<>>]

ErrorLine == Line("error", -1, "", <<>>, FALSE)
ResultLine(text) == Line("result", -1, "", text, FALSE)

\* mutant of ExceptHandler: the exception leaves run_agent
ExceptHandlerReraise == [status |-> "raised", value |-> <<>>, store |-> FALSE, offset |-> 0]

\* lines 117-119: except Exception: the error is printed and "" returned
ExceptHandler == [status |-> "error", value |-> <<>>, store |-> FALSE, offset |-> 0]

\* mutant of StartOffset: the turn starts at the end of the stored messages
StartOffsetAtEnd(offsets, thread) == Len(get_messages(thread))

\* start_idx = _history_offsets.get(thread_id, 0) (line 79)
StartOffset(offsets, thread) == DictGet(offsets, thread, 0)

\* what the operation found when it started
Snapshot(thread) ==
    [offsets |-> history_offsets,
     start |-> 0,
     len |-> Len(get_messages(thread)),
     after_fail |-> last_fail[thread] # -1,
     fail_offset |-> last_fail[thread]]

\* lines 64-82: the agent is built, the spinner started, the offset looked up
\* and the worker started
RunAgentStart(thread, show) ==
    /\ pc = "input"
    /\ dispatches < MaxDispatches
    /\ dispatches' = dispatches + 1
    /\ thread_id' = thread
    /\ show_trace' = show
    /\ result_box' = EmptyBox
    /\ spinner' = SpinnerStart(NewSpinner)
    /\ spinner_active' = TRUE
    /\ start_idx' = StartOffset(history_offsets, thread)
    /\ trace_started' = FALSE
    /\ printed' = FALSE
    /\ worker' = "alive"
    /\ pc' = "poll"
    /\ stdout' = <<>>
    /\ seen' = <<>>
    /\ phases' = << "EXECUTOR_RUNNING" >>
    /\ pre' = [Snapshot(thread) EXCEPT !.start = StartOffset(history_offsets, thread)]
    /\ ret' = NoRet
    /\ UNCHANGED << checkpoints, history_offsets, render_count, last_fail,
                    failed_rendered, appended >>

\* lines 64-66, 117-119: get_agent() raises, the handler prints and returns ""
RunAgentNoAgent(thread, show) ==
    /\ pc = "input"
    /\ dispatches < MaxDispatches
    /\ dispatches' = dispatches + 1
    /\ thread_id' = thread
    /\ show_trace' = show
    /\ result_box' = EmptyBox
    /\ worker' = "unstarted"
    /\ stdout' = << ErrorLine >>
    /\ seen' = <<>>
    /\ phases' = << "DONE" >>
    /\ pre' = Snapshot(thread)
    /\ ret' = [op |-> "dispatch", thread |-> thread, status |-> ExceptHandler.status,
               value |-> ExceptHandler.value]
    /\ last_fail' = [last_fail EXCEPT ![thread] = DictGet(history_offsets, thread, 0)]
    /\ pc' = "returned"
    /\ UNCHANGED << checkpoints, history_offsets, start_idx, trace_started, printed,
                    spinner_active, spinner, render_count, failed_rendered, appended >>

\* mutant of StopAtPoll: the loop leaves the spinner to the join
StopAtPollNever(emitted, active) == FALSE

\* if printed and spinner_active (line 86)
StopAtPoll(emitted, active) == emitted /\ active

\* lines 83-89: one turn of the loop while the worker is alive
Poll ==
    /\ pc = "poll"
    /\ worker = "alive"
    /\ IF show_trace
       THEN LET r == EmitNewMessages(thread_id, start_idx, trace_started)
            IN  /\ start_idx' = r.cursor
                /\ trace_started' = r.trace_started
                /\ printed' = r.printed
                /\ stdout' = stdout \o r.out
                /\ seen' = seen \o r.seen
                /\ render_count' = Counted(thread_id, r.out)
                /\ IF StopAtPoll(r.printed, spinner_active)
                   THEN spinner' = StopRecorded(spinner, phases) /\ spinner_active' = FALSE
                   ELSE UNCHANGED << spinner, spinner_active >>
       ELSE UNCHANGED << start_idx, trace_started, printed, stdout, seen, render_count,
                         spinner, spinner_active >>
    /\ UNCHANGED << checkpoints, history_offsets, pc, thread_id, show_trace, worker,
                    result_box, phases, ret, pre, last_fail, failed_rendered, dispatches, appended >>

\* str(result) of a result dict without an "output" key
DictText(box) == IF box.kind = "messages" THEN <<"{", "m", "}">> ELSE <<"{", "}">>

\* result.get("output", str(result))
ResultOutput(box) == IF box.kind = "output" THEN box.output ELSE DictText(box)

\* mutant of OffsetsOnError: the handler stores the cursor the drains reached
OffsetsOnErrorAdvanced(offsets, thread, cursor) == DictSet(offsets, thread, cursor)

\* _history_offsets after the executor's error was re-raised (lines 98-99, 117-119)
OffsetsOnError(offsets, thread, cursor) == offsets

\* mutant of SuccessOffset: the last message is left out of the count
SuccessOffsetShort(box) == Len(box.messages) - 1

\* _history_offsets[thread_id] on the branch with messages (line 106)
SuccessOffset(box) == Len(box.messages)

\* mutant of TurnOutcome: the branch without messages leaves _history_offsets
\* alone
TurnOutcomeNoFallbackStore(box, cursor) ==
    IF box.kind = "error"
    THEN ExceptHandler
    ELSE IF box.kind = "messages" /\ Len(box.messages) > 0
    THEN LET final_msg == box.messages[Len(box.messages)]
         IN  IF final_msg.content.isstr
             THEN [status |-> "ok", value |-> Strip(final_msg.content.text),
                   store |-> TRUE, offset |-> SuccessOffset(box)]
             ELSE ExceptHandler
    ELSE [status |-> "ok", value |-> Strip(ResultOutput(box)),
          store |-> FALSE, offset |-> 0]

\* _history_offsets[thread_id] on the branch without messages (line 109)
FallbackOffset(cursor, box) == cursor

\* lines 98-119: [status, value, store, offset]: the returned text and the offset
\* stored, if one is stored
TurnOutcome(box, cursor) ==
    IF box.kind = "error"
    THEN ExceptHandler
    ELSE IF box.kind = "messages" /\ Len(box.messages) > 0
    THEN LET final_msg == box.messages[Len(box.messages)]
         IN  IF final_msg.content.isstr
             THEN [status |-> "ok", value |-> Strip(final_msg.content.text),
                   store |-> TRUE, offset |-> SuccessOffset(box)]
             ELSE \* .strip() of a content that is no str raises, before line 106
                  ExceptHandler
    ELSE [status |-> "ok", value |-> Strip(ResultOutput(box)),
          store |-> TRUE, offset |-> FallbackOffset(cursor, box)]

\* a drain that is not made
NoEmit(start, started) ==
    [cursor |-> start, trace_started |-> started, printed |-> FALSE, out |-> <<>>,
     seen |-> <<>>, drained |-> FALSE]

\* lines 95-96: the drain after the worker has ended
FinalEmit(show, thread, start, started) ==
    IF show
    THEN LET r == EmitNewMessages(thread, start, started)
         IN  [cursor |-> r.cursor, trace_started |-> r.trace_started, printed |-> r.printed,
              out |-> r.out, seen |-> r.seen, drained |-> TRUE]
    ELSE NoEmit(start, started)

\* mutant of PhasesAtStop: lines 92-93 come after the drain of lines 95-96
PhasesAtStopLate(ph, d) == ph \o (IF d.drained THEN << "DRAINED" >> ELSE <<>>)

\* lines 91-96: the phases gone through when lines 92-93 stop the spinner, d
\* being the final drain, which is made after them
PhasesAtStop(ph, d) == ph

\* lines 91-119 with d the final drain: the worker is joined, the spinner stopped,
\* the final drain made and the outcome stored, printed and returned
FinishWith(d) ==
    LET o == TurnOutcome(result_box, d.cursor)
        printed_all == stdout \o d.out
    IN  /\ pc' = "returned"
        /\ spinner' = IF spinner_active
                       THEN StopRecorded(spinner, PhasesAtStop(phases, d))
                       ELSE spinner
        /\ start_idx' = d.cursor
        /\ trace_started' = d.trace_started
        /\ printed' = d.printed
        /\ seen' = seen \o d.seen
        /\ render_count' = Counted(thread_id, d.out)
        /\ history_offsets' =
              IF o.store THEN DictSet(history_offsets, thread_id, o.offset)
              ELSE OffsetsOnError(history_offsets, thread_id, d.cursor)
        /\ stdout' = Append(printed_all,
                            IF o.status = "ok" THEN ResultLine(o.value) ELSE ErrorLine)
        /\ ret' = [op |-> "dispatch", thread |-> thread_id, status |-> o.status,
                   value |-> o.value]
        /\ last_fail' = [last_fail EXCEPT ![thread_id] =
                             IF o.status = "ok" THEN -1 ELSE pre.start]
        /\ failed_rendered' = [failed_rendered EXCEPT ![thread_id] =
                             IF o.status = "ok" THEN @ ELSE @ \cup PrintedPositions(printed_all)]
        /\ phases' = phases \o (IF d.drained THEN << "DRAINED" >> ELSE <<>>) \o << "DONE" >>
        /\ UNCHANGED << checkpoints, thread_id, show_trace, spinner_active, worker,
                        result_box, pre, dispatches, appended >>

\* mutant of Finish: the error is re-raised before the final drain
FinishRaiseFirst ==
    /\ pc = "poll"
    /\ worker = "dead"
    /\ FinishWith(IF result_box.kind = "error"
                  THEN NoEmit(start_idx, trace_started)
                  ELSE FinalEmit(show_trace, thread_id, start_idx, trace_started))

\* mutant of Finish: run_agent goes on to line 91 without the worker having ended
FinishWithoutJoin ==
    /\ pc = "poll"
    /\ FinishWith(FinalEmit(show_trace, thread_id, start_idx, trace_started))

\* mutant of LoopOver: the loop is left only once the box holds a result
LoopOverOnResult == pc = "poll" /\ worker = "dead" /\ result_box.kind # "error"

\* line 83: run_agent is in its loop and worker.is_alive() is false
LoopOver == pc = "poll" /\ worker = "dead"

\* lines 83, 91-119: the loop sees the worker dead
Finish ==
    /\ LoopOver
    /\ FinishWith(FinalEmit(show_trace, thread_id, start_idx, trace_started))

\* ------------------------------------------------------------------ _invoke_agent
\* agent.invoke appends a message to the thread's checkpoint while it runs
AgentAppend(msg) ==
    /\ worker = "alive"
    /\ appended < MaxAppends
    /\ appended' = appended + 1
    /\ checkpoints' = DictSet(checkpoints, thread_id, Append(get_messages(thread_id), msg))
    /\ UNCHANGED << history_offsets, pc, thread_id, show_trace, start_idx, trace_started,
                    printed, spinner_active, spinner, worker, result_box, stdout, seen,
                    render_count, phases, ret, pre, last_fail, failed_rendered, dispatches >>

\* agent.invoke returns: container["result"] = ...
AgentReturn(kind) ==
    /\ worker = "alive"
    /\ worker' = "dead"
    /\ result_box' = [kind |-> kind,
                      messages |-> IF kind = "messages" THEN get_messages(thread_id) ELSE <<>>,
                      output |-> IF kind = "output" THEN <<" ", "o", "k">> ELSE <<>>]
    /\ phases' = Append(phases, "EXECUTOR_SUCCEEDED")
    /\ UNCHANGED << checkpoints, history_offsets, pc, thread_id, show_trace, start_idx,
                    trace_started, printed, spinner_active, spinner, stdout, seen,
                    render_count, ret, pre, last_fail, failed_rendered, dispatches, appended >>

\* agent.invoke raises: container["error"] = exc
AgentRaise ==
    /\ worker = "alive"
    /\ worker' = "dead"
    /\ result_box' = [kind |-> "error", messages |-> <<>>, output |-> <<>>]
    /\ phases' = Append(phases, "EXECUTOR_FAILED")
    /\ UNCHANGED << checkpoints, history_offsets, pc, thread_id, show_trace, start_idx,
                    trace_started, printed, spinner_active, spinner, stdout, seen,
                    render_count, ret, pre, last_fail, failed_rendered, dispatches, appended >>

\* ------------------------------------------------------------------ memory.py
NoCounts == [p \in 0..(MaxAppends - 1) |-> 0]

\* clear_memory(thread_id); raises says whether memory_checkpointer.delete raised
ClearMemory(thread, raises) ==
    /\ pc = "input"
    /\ IF raises
       THEN /\ stdout' = << Line("clear_failed", -1, "", <<>>, FALSE) >>
            /\ ret' = [op |-> "clear", thread |-> thread, status |-> "error", value |-> <<>>]
            /\ UNCHANGED << checkpoints, render_count, failed_rendered >>
       ELSE /\ checkpoints' = DictDel(checkpoints, thread)
            /\ stdout' = << Line("cleared", -1, "", <<>>, FALSE) >>
            /\ ret' = [op |-> "clear", thread |-> thread, status |-> "ok", value |-> <<>>]
            /\ render_count' = [render_count EXCEPT ![thread] = NoCounts]
            /\ failed_rendered' = [failed_rendered EXCEPT ![thread] = {}]
    /\ pc' = "returned"
    /\ UNCHANGED << history_offsets, thread_id, show_trace, start_idx, trace_started,
                    printed, spinner_active, spinner, worker, result_box, seen, phases,
                    pre, last_fail, dispatches, appended >>

\* content[:50] + ("..." if len(content) > 50 else "")
MemoryPreview(content) ==
    Line("latest", -1, "", PyPrefix(PyStr(content), PreviewCap),
         Len(PyStr(content)) > PreviewCap)

\* what show_memory_info prints, given what the read of line 21 gave
MemoryInfoOf(read) ==
    IF read.kind = "raises" THEN << Line("info_failed", -1, "", <<>>, FALSE) >>
    ELSE IF read.kind = "none" THEN << Line("no_memory", -1, "", <<>>, FALSE) >>
    ELSE LET messages == read.messages
         IN  << Line("count", Len(messages), "", <<>>, FALSE) >>
             \o (IF messages # <<>>
                 THEN << MemoryPreview(messages[Len(messages)].content) >>
                 ELSE <<>>)

\* what show_memory_info prints when the read does not fail
MemoryInfo(thread) == MemoryInfoOf(CheckpointGet(thread, FALSE))

\* show_memory_info(thread_id)
ShowMemoryInfo(thread) ==
    /\ pc = "input"
    /\ stdout' = MemoryInfo(thread)
    /\ ret' = [op |-> "inspect", thread |-> thread, status |-> "ok", value |-> <<>>]
    /\ pc' = "returned"
    /\ UNCHANGED << checkpoints, history_offsets, thread_id, show_trace, start_idx,
                    trace_started, printed, spinner_active, spinner, worker, result_box,
                    seen, render_count, phases, pre, last_fail, failed_rendered, dispatches, appended >>

\* ------------------------------------------------------------------ the turn loop
NoDict == [t \in {} |-> 0]

NoPre == [offsets |-> NoDict, start |-> 0, len |-> 0, after_fail |-> FALSE, fail_offset |-> -1]

\* the locals of the operation that returned are gone
Idle ==
    /\ pc = "input"
    /\ thread_id = "t1"
    /\ show_trace = TRUE
    /\ start_idx = 0
    /\ trace_started = FALSE
    /\ printed = FALSE
    /\ spinner_active = FALSE
    /\ spinner = NewSpinner
    /\ worker = "unstarted"
    /\ result_box = EmptyBox
    /\ stdout = <<>>
    /\ seen = <<>>
    /\ phases = <<>>
    /\ ret = NoRet
    /\ pre = NoPre

\* mutant of AfterOperation: the loop ends when the operation failed
AfterOperationStopOnError(r) == IF r.status = "error" THEN "exited" ELSE "input"

\* where the loop of main goes when an operation is over: continue, or the end
\* of the loop body, both back to input() at line 25
AfterOperation(r) == "input"

\* cli.py, lines 23-47: the operation is over, the loop reads the next input
NextInput ==
    /\ pc = "returned"
    /\ pc' = AfterOperation(ret)
    /\ thread_id' = "t1"
    /\ show_trace' = TRUE
    /\ start_idx' = 0
    /\ trace_started' = FALSE
    /\ printed' = FALSE
    /\ spinner_active' = FALSE
    /\ spinner' = NewSpinner
    /\ worker' = "unstarted"
    /\ result_box' = EmptyBox
    /\ stdout' = <<>>
    /\ seen' = <<>>
    /\ phases' = <<>>
    /\ ret' = NoRet
    /\ pre' = NoPre
    /\ UNCHANGED << checkpoints, history_offsets, render_count, last_fail,
                    failed_rendered, dispatches, appended >>

\* what ends the loop of main: an exit command (lines 27-29), Ctrl+C (lines
\* 49-51), the end of the input (lines 52-54)
ExitCauses == {"exit", "keyboard_interrupt", "eof"}

\* cli.py, lines 25-29, 49-54: the loop is left at the prompt
ShellExit(cause) ==
    /\ pc = "input"
    /\ pc' = "exited"
    /\ stdout' = << Line("bye", -1, "", <<>>, FALSE) >>
    /\ ret' = [NoRet EXCEPT !.op = cause]
    /\ UNCHANGED << checkpoints, history_offsets, thread_id, show_trace, start_idx,
                    trace_started, printed, spinner_active, spinner, worker, result_box,
                    seen, render_count, phases, pre, last_fail, failed_rendered,
                    dispatches, appended >>

\* cli.py, lines 55-58: an exception nobody below caught reaches the loop, which
\* prints it and continues
ShellError ==
    /\ pc = "input"
    /\ pc' = "returned"
    /\ stdout' = << Line("unexpected", -1, "", <<>>, FALSE) >>
    /\ ret' = [op |-> "unexpected", thread |-> "", status |-> "error", value |-> <<>>]
    /\ UNCHANGED << checkpoints, history_offsets, thread_id, show_trace, start_idx,
                    trace_started, printed, spinner_active, spinner, worker, result_box,
                    seen, render_count, phases, pre, last_fail, failed_rendered,
                    dispatches, appended >>

Init ==
    /\ checkpoints = NoDict
    /\ history_offsets = NoDict
    /\ Idle
    /\ render_count = [t \in Threads |-> NoCounts]
    /\ last_fail = [t \in Threads |-> -1]
    /\ failed_rendered = [t \in Threads |-> {}]
    /\ dispatches = 0
    /\ appended = 0

Next ==
    \/ \E t \in Threads, show \in BOOLEAN : RunAgentStart(t, show)
    \/ \E t \in Threads, show \in BOOLEAN : RunAgentNoAgent(t, show)
    \/ Poll
    \/ Finish
    \/ \E m \in ExecMessages : AgentAppend(m)
    \/ \E kind \in {"messages", "output", "bare"} : AgentReturn(kind)
    \/ AgentRaise
    \/ \E t \in Threads, raises \in BOOLEAN : ClearMemory(t, raises)
    \/ \E t \in Threads : ShowMemoryInfo(t)
    \/ NextInput
    \/ \E cause \in ExitCauses : ShellExit(cause)
    \/ ShellError

Spec == Init /\ [][Next]_vars

\* ------------------------------------------------------------------ one thread, fair loop
\* run_agent calls on one thread, with the foreground thread scheduled fairly:
\* the loop of lines 83-89 keeps testing worker.is_alive() and goes on to line
\* 91 once it is false.  The worker is not fair: agent.invoke need not end.
TurnNext ==
    \/ \E show \in BOOLEAN : RunAgentStart("t1", show)
    \/ Poll
    \/ Finish
    \/ \E m \in ExecMessages : AgentAppend(m)
    \/ \E kind \in {"messages", "output", "bare"} : AgentReturn(kind)
    \/ AgentRaise
    \/ NextInput

\* WF_vars(Finish): Finish always changes pc, so ENABLED <<Finish>>_vars is its
\* guard LoopOver, written here as that state predicate
LoopFair == []<>(~LoopOver) \/ []<><<Finish>>_vars

TurnSpec == Init /\ [][TurnNext]_vars /\ LoopFair

\* ------------------------------------------------------------------ drain harness
\* _emit_new_messages applied to any cursor on a thread in any bounded state
ProbeMessages == ExecMessages \cup { Msg("system", "", Str(<<>>)) }

ProbeLists == UNION { [1..n -> ProbeMessages] : n \in 0..MaxProbeLen }

ProbeCursors == (0 - 2)..MaxCursor

ProbeInit ==
    /\ checkpoints \in {NoDict} \cup { [t \in {"t1"} |-> l] : l \in ProbeLists }
    /\ history_offsets = NoDict
    /\ pc = "probe"
    /\ thread_id = "t1"
    /\ show_trace = TRUE
    /\ start_idx = 0
    /\ trace_started = FALSE
    /\ printed = FALSE
    /\ spinner_active = FALSE
    /\ spinner = NewSpinner
    /\ worker = "unstarted"
    /\ result_box = EmptyBox
    /\ stdout = <<>>
    /\ seen = <<>>
    /\ phases = <<>>
    /\ ret = NoRet
    /\ pre = NoPre
    /\ render_count = [t \in Threads |-> NoCounts]
    /\ last_fail = [t \in Threads |-> -1]
    /\ failed_rendered = [t \in Threads |-> {}]
    /\ dispatches = 0
    /\ appended = 0

\* one call start_idx, trace_started, printed = _emit_new_messages(thread_id, cursor, started)
ProbeCall(op, cursor, started) ==
    LET r == EmitNewMessages(thread_id, cursor, started)
    IN  /\ start_idx' = r.cursor
        /\ trace_started' = r.trace_started
        /\ printed' = r.printed
        /\ stdout' = r.out
        /\ seen' = r.seen
        /\ pre' = [NoPre EXCEPT !.start = cursor, !.len = Len(get_messages(thread_id))]
        /\ ret' = [NoRet EXCEPT !.op = op, !.thread = thread_id]
        /\ UNCHANGED << checkpoints, history_offsets, pc, thread_id, show_trace,
                        spinner_active, spinner, worker, result_box, render_count, phases,
                        last_fail, failed_rendered, dispatches, appended >>

\* a call with any cursor
ProbeDrain(cursor, started) ==
    /\ pc = "probe"
    /\ ProbeCall("drain", cursor, started)

\* the next call, with the cursor and the flag the last call returned and no
\* append in between
ProbeRedrain ==
    /\ pc = "probe"
    /\ ret.op \in {"drain", "redrain"}
    /\ ProbeCall("redrain", start_idx, trace_started)

\* the next call after the agent appended, with the cursor and the flag the
\* last call returned (the cursor 0 when no call was made yet)
ProbeResume ==
    /\ pc = "probe"
    /\ ret.op = "append"
    /\ ProbeCall("resume", start_idx, trace_started)

\* the agent appends between two calls
ProbeAppend(msg) ==
    /\ pc = "probe"
    /\ Len(get_messages(thread_id)) < MaxProbeLen
    /\ checkpoints' = DictSet(checkpoints, thread_id, Append(get_messages(thread_id), msg))
    /\ ret' = [NoRet EXCEPT !.op = "append", !.thread = thread_id]
    /\ UNCHANGED << history_offsets, pc, thread_id, show_trace, start_idx, trace_started,
                    printed, spinner_active, spinner, worker, result_box, stdout, seen,
                    render_count, phases, pre, last_fail, failed_rendered, dispatches,
                    appended >>

ProbeNext ==
    \/ \E c \in ProbeCursors, started \in BOOLEAN : ProbeDrain(c, started)
    \/ ProbeRedrain
    \/ ProbeResume
    \/ \E m \in ProbeMessages : ProbeAppend(m)

DrainSpec == ProbeInit /\ [][ProbeNext]_vars

\* ------------------------------------------------------------------ render harness
\* _emit_new_messages applied to a thread that holds one message, for every
\* role, type and content below
LabelRoles == {"", "system", "user", "assistant", "USER"}

LabelTypes == {"", "system", "human", "user", "ai", "tool", "SYSTEM"}

\* a text of n characters, none of them whitespace
Fill(n) == [k \in 1..n |-> "x"]

\* contents that say nothing about the cap: a text, a blank text
ShortContents == { Str(<<"a">>), Str(<<" ">>) }

\* contents around the cap of line 55, with and without whitespace to strip
CapContents ==
    { Str(Fill(TraceCap - 1)), Str(Fill(TraceCap)), Str(Fill(TraceCap + 1)),
      Str(<<" ">> \o Fill(TraceCap) \o <<"\n">>),
      Str(<<"\t">> \o Fill(TraceCap + 1)),
      Obj(Fill(TraceCap + 2)) }

\* every role and type with the short contents, two types with the long ones
RenderMessages ==
    { Msg(t, r, c) : t \in LabelTypes, r \in LabelRoles, c \in ShortContents }
    \cup { Msg(t, "", c) : t \in {"ai", "human"}, c \in CapContents }

RenderInit ==
    /\ checkpoints \in { [t \in {"t1"} |-> << m >>] : m \in RenderMessages }
    /\ history_offsets = NoDict
    /\ pc = "render"
    /\ thread_id = "t1"
    /\ show_trace = TRUE
    /\ start_idx = 0
    /\ trace_started = FALSE
    /\ printed = FALSE
    /\ spinner_active = FALSE
    /\ spinner = NewSpinner
    /\ worker = "unstarted"
    /\ result_box = EmptyBox
    /\ stdout = <<>>
    /\ seen = <<>>
    /\ phases = <<>>
    /\ ret = NoRet
    /\ pre = NoPre
    /\ render_count = [t \in Threads |-> NoCounts]
    /\ last_fail = [t \in Threads |-> -1]
    /\ failed_rendered = [t \in Threads |-> {}]
    /\ dispatches = 0
    /\ appended = 0

\* the call that renders the message, with or without the header printed before
RenderOne(started) ==
    /\ pc = "render"
    /\ ret.op = "none"
    /\ ProbeCall("render", 0, started)

RenderNext == \E started \in BOOLEAN : RenderOne(started)

RenderSpec == RenderInit /\ [][RenderNext]_vars

\* ------------------------------------------------------------------ memory harness
\* get_messages and show_memory_info applied to a store in any of the states
\* below, with a read that succeeds or fails
PreviewContents ==
    { Str(<<>>), Str(<<"a">>),
      Str(Fill(PreviewCap - 1)), Str(Fill(PreviewCap)), Str(Fill(PreviewCap + 1)),
      Str(<<" ">> \o Fill(PreviewCap)),
      Obj(<<"[", "]">>), Obj(Fill(PreviewCap + 1)) }

\* no message, one message, two messages
MemoryLists ==
    { <<>> }
    \cup { << Msg("ai", "", c) >> : c \in PreviewContents }
    \cup { << Msg("human", "", Str(<<"a">>)), Msg("ai", "", c) >> : c \in PreviewContents }

MemoryInit ==
    /\ checkpoints \in {NoDict} \cup { [t \in {"t1"} |-> l] : l \in MemoryLists }
    /\ history_offsets = NoDict
    /\ pc = "memory"
    /\ thread_id = "t1"
    /\ show_trace = TRUE
    /\ start_idx = 0
    /\ trace_started = FALSE
    /\ printed = FALSE
    /\ spinner_active = FALSE
    /\ spinner = NewSpinner
    /\ worker = "unstarted"
    /\ result_box = EmptyBox
    /\ stdout = <<>>
    /\ seen = <<>>
    /\ phases = <<>>
    /\ ret = NoRet
    /\ pre = NoPre
    /\ render_count = [t \in Threads |-> NoCounts]
    /\ last_fail = [t \in Threads |-> -1]
    /\ failed_rendered = [t \in Threads |-> {}]
    /\ dispatches = 0
    /\ appended = 0

\* one call of get_messages(thread); result_box keeps what the read gave
MemoryGet(thread, fails) ==
    LET read == CheckpointGet(thread, fails)
        r == GetMessagesOf(read)
    IN  /\ pc = "memory"
        /\ ret.op = "none"
        /\ result_box' = [EmptyBox EXCEPT !.kind = read.kind]
        /\ ret' = [op |-> "get", thread |-> thread, status |-> r.status, value |-> r.value]
        /\ UNCHANGED << checkpoints, history_offsets, pc, thread_id, show_trace, start_idx,
                        trace_started, printed, spinner_active, spinner, worker, stdout,
                        seen, render_count, phases, pre, last_fail, failed_rendered,
                        dispatches, appended >>

\* one call of show_memory_info(thread)
MemoryInspect(thread, fails) ==
    LET read == CheckpointGet(thread, fails)
    IN  /\ pc = "memory"
        /\ ret.op = "none"
        /\ result_box' = [EmptyBox EXCEPT !.kind = read.kind]
        /\ stdout' = MemoryInfoOf(read)
        /\ ret' = [op |-> "inspect", thread |-> thread, status |-> "ok", value |-> <<>>]
        /\ UNCHANGED << checkpoints, history_offsets, pc, thread_id, show_trace, start_idx,
                        trace_started, printed, spinner_active, spinner, worker, seen,
                        render_count, phases, pre, last_fail, failed_rendered, dispatches,
                        appended >>

MemoryNext ==
    \/ \E t \in Threads, fails \in BOOLEAN : MemoryGet(t, fails)
    \/ \E t \in Threads, fails \in BOOLEAN : MemoryInspect(t, fails)

MemorySpec == MemoryInit /\ [][MemoryNext]_vars

\* ------------------------------------------------------------------ properties
Range(f) == {f[k] : k \in DOMAIN f}

\* run_agent has returned from a turn whose worker was started
DispatchDone == pc = "returned" /\ ret.op = "dispatch" /\ worker = "dead"

Drained(result) == << "EXECUTOR_RUNNING", result, "DRAINED", "DONE" >>

\* C1: when a dispatch with show_trace returns, every message the agent appended
\* during it (the positions from the length at its start on) was visited by the
\* loop of one of its drains.
C1_NoMessageLost ==
    (DispatchDone /\ show_trace) =>
        \A i \in pre.len..(Len(get_messages(thread_id)) - 1) : i \in Range(seen)

\* C2: no position of a thread is printed more than once between two clears.
C2_RenderedAtMostOnce ==
    \A t \in Threads : \A p \in DOMAIN render_count[t] : render_count[t][p] <= 1

\* C2 (amended): a position of a thread is printed more than once between two
\* clears only if a dispatch that printed it failed.
C2_RenderedOnceUnlessFailed ==
    \A t \in Threads : \A p \in DOMAIN render_count[t] :
        render_count[t][p] > 1 => p \in failed_rendered[t]

\* two successful dispatches on t1 have printed one message each, the second
\* starting at the offset the first stored
C2_Witness ==
    /\ DispatchDone /\ ret.status = "ok" /\ thread_id = "t1"
    /\ pre.start = 1 /\ seen = << 1 >>
    /\ render_count["t1"][0] = 1 /\ render_count["t1"][1] = 1
    /\ failed_rendered["t1"] = {}

\* C3: when run_agent returns after the agent raised, _history_offsets is what it
\* was when run_agent was called, entry by entry.
C3_OffsetKeptOnExecutorFailure ==
    (DispatchDone /\ result_box.kind = "error") => history_offsets = pre.offsets

\* the agent appended during the failed turn, the drains showed it, and the
\* thread still has no entry
C3_Witness ==
    /\ DispatchDone /\ result_box.kind = "error"
    /\ Len(get_messages(thread_id)) > pre.len /\ seen # <<>>
    /\ thread_id \notin DOMAIN history_offsets

\* C4: a dispatch with show_trace that follows a failed dispatch on the same
\* thread starts at the offset stored before the failed one, and its drains visit
\* every position from that offset on.
C4_RetryDrainsFromFailureOffset ==
    (DispatchDone /\ show_trace /\ pre.after_fail) =>
        /\ pre.start = pre.fail_offset
        /\ \A i \in pre.fail_offset..(Len(get_messages(thread_id)) - 1) : i \in Range(seen)

\* the retry starts at offset 1 and shows the message the failed turn left at
\* position 1
C4_Witness ==
    /\ DispatchDone /\ show_trace /\ pre.after_fail
    /\ pre.fail_offset = 1 /\ pre.len = 2 /\ seen = << 1 >>

\* C5: every dispatch whose worker was started goes running, completed, drained,
\* done, with show_trace or without.
C5_AlwaysDrained ==
    DispatchDone =>
        phases \in {Drained("EXECUTOR_SUCCEEDED"), Drained("EXECUTOR_FAILED")}

\* C5 (amended): every dispatch with show_trace whose worker was started goes
\* running, completed, drained, done, whether the agent returned or raised.
\* (A dispatch whose get_agent() raised has phases << "DONE" >> alone.)
C5_DrainedWhenShown ==
    (DispatchDone /\ show_trace) =>
        phases \in {Drained("EXECUTOR_SUCCEEDED"), Drained("EXECUTOR_FAILED")}

\* the agent raised, and the final drain showed what it had appended
C5_Witness ==
    /\ DispatchDone /\ show_trace /\ phases = Drained("EXECUTOR_FAILED")
    /\ printed /\ stdout[Len(stdout)].kind = "error"

\* C6: after a successful dispatch the thread's stored offset is the number of
\* messages the thread holds.
C6_OffsetIsCountAfterSuccess ==
    (DispatchDone /\ ret.status = "ok") =>
        /\ thread_id \in DOMAIN history_offsets
        /\ history_offsets[thread_id] = Len(get_messages(thread_id))

\* C7: after a clear that succeeded the thread holds no message and its stored
\* offset is 0 or gone, so that the next dispatch starts at 0.
C7_ClearResetsOffset ==
    (pc = "returned" /\ ret.op = "clear" /\ ret.status = "ok") =>
        /\ get_messages(ret.thread) = <<>>
        /\ MemoryInfo(ret.thread) = << Line("no_memory", -1, "", <<>>, FALSE) >>
        /\ StartOffset(history_offsets, ret.thread) = 0

\* the cursor of a call, clamped into 0..len
Clamped(cursor, len) == Max(0, Min(cursor, len))

ProbeReturned == pc = "probe" /\ ret.op \in {"drain", "redrain"}

\* C8: a call made with the cursor the last call returned, with no append in
\* between, returns printed = False, prints nothing and visits no message.
C8_SecondDrainSilent ==
    (pc = "probe" /\ ret.op = "redrain") =>
        (~printed /\ stdout = <<>> /\ seen = <<>>)

\* the second call came after a first one that had printed
C8_Witness ==
    /\ pc = "probe" /\ ret.op = "redrain" /\ ~printed /\ stdout = <<>>
    /\ trace_started /\ pre.start = 2 /\ pre.len = 2

\* C9: for any cursor the loop visits the positions from the cursor clamped into
\* 0..len up to len - 1, each of them a position of the list, in ascending order,
\* and the cursor returned lies in 0..len.
C9_CursorClamped ==
    ProbeReturned =>
        /\ start_idx \in 0..pre.len
        /\ seen = [k \in 1..(pre.len - Clamped(pre.start, pre.len)) |->
                      Clamped(pre.start, pre.len) + k - 1]
        /\ \A p \in Range(seen) : p \in 0..(pre.len - 1)

\* a negative cursor on a list of two: both messages are visited, from 0
C9_Witness ==
    ProbeReturned /\ pre.start < 0 /\ pre.len = 2 /\ seen = << 0, 1 >> /\ start_idx = 2

\* C10: the cursor returned is len, and printed is True exactly when the clamped
\* cursor was below len.
C10_ReturnsLenAndFlag ==
    ProbeReturned =>
        /\ start_idx = pre.len
        /\ printed <=> (Clamped(pre.start, pre.len) < pre.len)

\* every message fetched was blank: nothing is printed but the header, and
\* printed is True
C10_Witness ==
    /\ ProbeReturned /\ printed /\ seen = << 0, 1 >>
    /\ PrintedPositions(stdout) = {}
    /\ start_idx = 2

\* the store positions of the message lines of out, in the order printed
MsgPositions(out) ==
    LET lines == SelectSeq(out, LAMBDA l : l.kind = "msg")
    IN  [k \in DOMAIN lines |-> lines[k].pos]

Ascending(s) == \A i, j \in DOMAIN s : i < j => s[i] < s[j]

\* C11: at any moment of a dispatch the positions its drains have visited so far
\* are strictly ascending, so are the positions of the lines printed so far, and
\* each printed line is the rendering of the message the store holds at that
\* position.
C11_RenderedInAppendOrder ==
    (pc \in {"poll", "returned"} /\ worker # "unstarted") =>
        /\ Ascending(seen)
        /\ Ascending(MsgPositions(stdout))
        /\ \A k \in DOMAIN stdout :
              stdout[k].kind = "msg" =>
                  /\ stdout[k].pos < Len(get_messages(thread_id))
                  /\ << stdout[k] >> =
                        RenderMessage(get_messages(thread_id)[stdout[k].pos + 1], stdout[k].pos)

\* a drain of the loop printed position 0 and stopped the spinner, the drain after
\* the join printed position 1
C11_Witness ==
    /\ DispatchDone /\ show_trace /\ ~spinner_active /\ printed
    /\ seen = << 0, 1 >> /\ MsgPositions(stdout) = << 0, 1 >>

\* C12: every run_agent call returns to its caller, with a text or as a failure;
\* when the agent raised, or get_agent() raised, the call returns "" and the
\* last thing it printed is the error line, with no result line.
C12_FailureRecovered ==
    (pc = "returned" /\ ret.op = "dispatch") =>
        /\ ret.status \in {"ok", "error"}
        /\ (worker = "unstarted" \/ result_box.kind = "error") =>
              /\ ret.status = "error"
              /\ ret.value = <<>>
              /\ stdout[Len(stdout)] = ErrorLine
              /\ \A k \in DOMAIN stdout : stdout[k].kind # "result"

\* the agent raised after it had appended a message, in a turn without trace
C12_Witness ==
    /\ DispatchDone /\ ~show_trace /\ result_box.kind = "error"
    /\ Len(get_messages(thread_id)) > pre.len
    /\ ret.status = "error" /\ ret.value = <<>> /\ stdout = << ErrorLine >>

\* the text the turn should return for the result in box: the last message's
\* content as text, stripped; else the output field, stripped; else the text of
\* the result itself
ExpectedFinalText(box) ==
    IF box.kind = "messages" /\ Len(box.messages) > 0
    THEN Strip(PyStr(box.messages[Len(box.messages)].content))
    ELSE IF box.kind = "output" THEN Strip(box.output)
    ELSE Strip(DictText(box))

\* C13: when the agent returned a result, run_agent returns the text above, also
\* when the last message's content is no str.
C13_FinalTextFromResult ==
    (DispatchDone /\ result_box.kind # "error") =>
        /\ ret.status = "ok"
        /\ ret.value = ExpectedFinalText(result_box)
        /\ stdout[Len(stdout)] = ResultLine(ExpectedFinalText(result_box))

\* what a finished run_agent call reports: the value returned and the kind of the
\* closing line it printed
Report == [value |-> ret.value, line |-> stdout[Len(stdout)].kind]

\* the report of a turn whose agent raised
FailureReport == [value |-> ExceptHandler.value, line |-> ErrorLine.kind]

\* the agent returned a result and appended nothing during the turn
SucceededWithoutMessages ==
    /\ DispatchDone /\ result_box.kind # "error"
    /\ Len(get_messages(thread_id)) = pre.len

\* C14: a turn whose agent raised reports FailureReport, and a turn whose agent
\* returned without appending a message reports something else.
C14_FailureDistinctFromQuietSuccess ==
    /\ (DispatchDone /\ result_box.kind = "error") => Report = FailureReport
    /\ SucceededWithoutMessages => Report # FailureReport

\* a turn with show_trace whose worker was started is under way or has returned
TracedDispatch == pc \in {"poll", "returned"} /\ worker # "unstarted" /\ show_trace

\* C15: in a turn with show_trace the spinner animates as long as no drain of the
\* turn has fetched a message and the loop is still running; from the poll whose
\* drain first fetched messages on it is stopped, by one stop() call, and it is
\* not animating in any later state of the turn.
C15_SpinnerStoppedAtFirstEmit ==
    TracedDispatch =>
        /\ (pc = "poll" /\ seen = <<>>) => (spinner.alive /\ spinner_active)
        /\ seen # <<>> =>
              (~spinner.alive /\ spinner.stop_event /\ spinner.stops = 1)
        /\ pc = "returned" => (~spinner.alive /\ spinner.stops = 1)

\* the worker is still running, an earlier poll showed a message and stopped the
\* spinner, the latest poll found nothing new and the spinner is still off
C15_Witness ==
    /\ pc = "poll" /\ worker = "alive" /\ show_trace
    /\ seen = << 0 >> /\ ~printed /\ ~spinner_active
    /\ ~spinner.alive /\ spinner.stops = 1

\* the message the render harness holds, and the lines printed for it
Rendered == pc = "render" /\ ret.op = "render"

TheMessage == get_messages("t1")[1]

MsgLines == SelectSeq(stdout, LAMBDA l : l.kind = "msg")

\* the label by the precedence role field first, then type tag, then default
RoleFirstLabel(msg) ==
    LET msg_type == Lower(msg.type)
        msg_role == Lower(msg.role)
    IN  IF msg_role = "system" THEN "system-prompt"
        ELSE IF msg_role = "user" THEN "user-input"
        ELSE IF msg_type = "system" THEN "system-prompt"
        ELSE IF msg_type \in {"human", "user"} THEN "user-input"
        ELSE "model-response"

\* C16: for every role and type, the line printed for a message that is not
\* blank carries the label the role field gives, else the one the type gives,
\* else model-response.
C16_RoleFieldFirst ==
    (Rendered /\ Strip(PyStr(TheMessage.content)) # <<>>) =>
        /\ Len(MsgLines) = 1
        /\ MsgLines[1].label = RoleFirstLabel(TheMessage)

\* the content of the harness message as the loop body has it after line 52
StrippedContent == Strip(PyStr(TheMessage.content))

\* C17: a stripped content of at most TraceCap characters is printed whole and
\* without the suffix, at exactly TraceCap characters too; a stripped content of
\* TraceCap + 1 characters or more is printed as its first TraceCap characters,
\* with the suffix.
C17_TruncationBoundary ==
    (Rendered /\ StrippedContent # <<>>) =>
        /\ Len(MsgLines) = 1
        /\ Len(StrippedContent) <= TraceCap =>
              (MsgLines[1].preview = StrippedContent /\ ~MsgLines[1].suffix)
        /\ Len(StrippedContent) >= TraceCap + 1 =>
              /\ MsgLines[1].preview = SubSeq(StrippedContent, 1, TraceCap)
              /\ Len(MsgLines[1].preview) = TraceCap
              /\ MsgLines[1].suffix

\* a content longer than the cap before it is stripped and exactly the cap after:
\* printed whole, without the suffix
C17_Witness ==
    /\ Rendered /\ Len(PyStr(TheMessage.content)) > TraceCap
    /\ Len(StrippedContent) = TraceCap
    /\ Len(MsgLines) = 1 /\ MsgLines[1].preview = StrippedContent /\ ~MsgLines[1].suffix

\* what the program holds for thread b: its checkpoint and its read offset
ThreadState(b) ==
    [has_checkpoint |-> b \in DOMAIN checkpoints,
     messages |-> get_messages(b),
     has_offset |-> b \in DOMAIN history_offsets,
     offset |-> DictGet(history_offsets, b, 0)]

\* the thread the operation under way, or just returned, was called with
OpThread == IF pc = "poll" THEN thread_id ELSE ret.thread

\* C18: a step of run_agent, of its drains, of the worker, of show_memory_info or
\* of clear_memory for thread A leaves the checkpoint and the read offset of
\* every other thread as they were; the step back to the prompt changes none.
C18_OtherThreadsUntouched ==
    [][\A b \in Threads :
          (pc' = "input" \/ b # OpThread') => ThreadState(b)' = ThreadState(b)]_vars

\* t2 was cleared after a message had been appended to it; t1 still holds its
\* message and its offset
C18_Witness ==
    /\ pc = "returned" /\ ret.op = "clear" /\ ret.thread = "t2" /\ ret.status = "ok"
    /\ appended = 2 /\ "t2" \notin DOMAIN checkpoints
    /\ Len(get_messages("t1")) = 1 /\ DictGet(history_offsets, "t1", 0) = 1

\* a step of the foreground that is no clear_memory call: run_agent from its start
\* to its return with its drains, show_memory_info, the way back to the prompt
ReaderStep ==
    \/ \E t \in Threads, show \in BOOLEAN : RunAgentStart(t, show) \/ RunAgentNoAgent(t, show)
    \/ Poll
    \/ Finish
    \/ \E t \in Threads : ShowMemoryInfo(t)
    \/ NextInput

\* the step leaves the messages of thread t alone, or the running worker
\* appends to them, or a clear_memory call drops the thread's checkpoint whole
StoreStep(t) ==
    \/ /\ (t \in DOMAIN checkpoints) <=> (t \in DOMAIN checkpoints')
       /\ get_messages(t)' = get_messages(t)
    \/ /\ worker = "alive" /\ t = thread_id
       /\ Len(get_messages(t)') > Len(get_messages(t))
       /\ SubSeq(get_messages(t)', 1, Len(get_messages(t))) = get_messages(t)
    \/ /\ pc = "input" /\ ret'.op = "clear" /\ ret'.thread = t
       /\ t \notin DOMAIN checkpoints'

\* C19: in every step each thread's messages stay where they are, each at its
\* position, unless the worker appends behind them or clear_memory drops the
\* whole thread; and no step of run_agent, of a drain or of show_memory_info
\* changes the store.
C19_PositionsStable ==
    [][/\ \A t \in Threads : StoreStep(t)
       /\ ReaderStep => checkpoints' = checkpoints]_vars

\* after two turns on t1 and their drains the thread holds the two messages in
\* the order they were appended, and show_memory_info counts two
C19_Witness ==
    /\ pc = "returned" /\ ret.op = "inspect" /\ ret.thread = "t1"
    /\ dispatches = 2 /\ DictGet(history_offsets, "t1", 0) = 2
    /\ get_messages("t1") = << Msg("human", "", Str(<<"a">>)), Msg("ai", "", Str(<<" ">>)) >>
    /\ stdout[1] = Line("count", 2, "", <<>>, FALSE)

\* how often the current run_agent call went through phase
PhaseCount(phase) == Cardinality({k \in DOMAIN phases : phases[k] = phase})

\* C20: a worker runs only while run_agent is in its loop, so run_agent has not
\* returned and the prompt is not reading while one runs; a run_agent call in its
\* loop has started one worker, and one that returned after starting its
\* worker saw that one worker end, once.
C20_OneExecutorInFlight ==
    /\ worker = "alive" => pc = "poll"
    /\ pc = "poll" => (worker \in {"alive", "dead"} /\ PhaseCount("EXECUTOR_RUNNING") = 1)
    /\ pc \in {"input", "returned"} => worker \in {"unstarted", "dead"}
    /\ DispatchDone =>
          /\ PhaseCount("EXECUTOR_RUNNING") = 1
          /\ PhaseCount("EXECUTOR_SUCCEEDED") + PhaseCount("EXECUTOR_FAILED") = 1

\* the worker of the second run_agent call is running, in the loop, after the
\* first call's worker ended and the call returned
C20_Witness ==
    /\ pc = "poll" /\ worker = "alive" /\ dispatches = 2
    /\ phases = << "EXECUTOR_RUNNING" >> /\ appended = 2

\* C21: get_messages never raises; it returns the messages of the thread's
\* checkpoint in their order when the read gave a checkpoint, and the empty
\* list when the thread has none or the read raised.
C21_GetMessagesNeverRaises ==
    (pc = "memory" /\ ret.op = "get") =>
        /\ ret.status = "ok"
        /\ ret.value = IF result_box.kind = "checkpoint" THEN checkpoints[ret.thread]
                       ELSE <<>>

\* the read raised on a thread that holds two messages: the empty list comes back
C21_Witness ==
    /\ pc = "memory" /\ ret.op = "get" /\ ret.thread = "t1"
    /\ result_box.kind = "raises"
    /\ "t1" \in DOMAIN checkpoints /\ Len(checkpoints["t1"]) = 2
    /\ ret.status = "ok" /\ ret.value = <<>>

\* the step is a clear_memory or show_memory_info call for a thread that has no
\* checkpoint
UnknownThreadStep ==
    /\ pc = "input" /\ ret'.op \in {"clear", "inspect"}
    /\ ret'.thread \notin DOMAIN checkpoints

\* C22: clear_memory for a thread without a checkpoint reports a failure, not a
\* success; show_memory_info for such a thread reports that there is no memory;
\* both return, and neither changes the store or the read offsets.
C22_UnknownThreadReported ==
    [][UnknownThreadStep =>
          /\ pc' = "returned"
          /\ checkpoints' = checkpoints /\ history_offsets' = history_offsets
          /\ ret'.op = "clear" =>
                (ret'.status = "error"
                 /\ stdout' = << Line("clear_failed", -1, "", <<>>, FALSE) >>)
          /\ ret'.op = "inspect" =>
                stdout' = << Line("no_memory", -1, "", <<>>, FALSE) >>]_vars

\* show_memory_info returned in the memory harness, its read having succeeded
Inspected == pc = "memory" /\ ret.op = "inspect" /\ result_box.kind # "raises"

\* the two lines for a thread with messages: their count, and the latest content
\* whole when it has at most PreviewCap characters, else its first PreviewCap
\* characters and the ellipsis
CountAndPreview(messages) ==
    LET text == PyStr(messages[Len(messages)].content)
    IN  << Line("count", Len(messages), "", <<>>, FALSE),
           Line("latest", -1, "",
                IF Len(text) <= PreviewCap THEN text ELSE SubSeq(text, 1, PreviewCap),
                Len(text) > PreviewCap) >>

\* C23: show_memory_info prints the count and the preview of the latest message
\* for a thread that holds messages, and the no-memory line for a thread that
\* holds none, with a checkpoint or without.
C23_InspectCountAndPreview ==
    Inspected =>
        stdout = IF get_messages(ret.thread) = <<>>
                 THEN << Line("no_memory", -1, "", <<>>, FALSE) >>
                 ELSE CountAndPreview(get_messages(ret.thread))

\* after an operation the step back to the prompt can be taken
PromptReachable == pc = "returned" => ENABLED NextInput

\* C24: when an operation of the loop is over, failed or not, the one step the
\* shell can take is back to the prompt, and it can take it; the loop is left
\* only from the prompt, by an exit command, Ctrl+C or the end of the input, and
\* nothing follows.
C24_ShellKeepsLooping ==
    /\ []PromptReachable
    /\ [][/\ pc = "returned" => pc' = "input"
          /\ pc' = "exited" => (pc = "input" /\ ret'.op \in ExitCauses)
          /\ pc # "exited"]_vars

\* an error reached the loop, which goes on; a dispatch on t1 had failed before
\* and the loop had gone on then too
C24_Witness ==
    /\ pc = "returned" /\ ret.op = "unexpected" /\ ret.status = "error"
    /\ dispatches = 1 /\ last_fail["t1"] # -1

BlankAt(p) == Strip(PyStr(get_messages(thread_id)[p + 1].content)) = <<>>

\* C26: a call prints no line for a blank message and a line for every other
\* message it visits; the cursor it returns lies beyond every position it
\* visited, blank or not; and the next call made with that cursor, after appends
\* or without, visits and prints no position below it.
C26_BlankSkippedNotRevisited ==
    (pc = "probe" /\ ret.op \in {"drain", "redrain", "resume"}) =>
        /\ \A p \in Range(seen) : BlankAt(p) <=> p \notin PrintedPositions(stdout)
        /\ PrintedPositions(stdout) \subseteq Range(seen)
        /\ \A p \in Range(seen) : p < start_idx
        /\ ret.op \in {"redrain", "resume"} =>
              \A p \in Range(seen) : p >= pre.start

\* the thread held one blank message when a call returned cursor 1; a message
\* was appended, and the call made with cursor 1 printed position 1 alone
C26_Witness ==
    /\ pc = "probe" /\ ret.op = "resume" /\ pre.start = 1 /\ pre.len = 2
    /\ BlankAt(0) /\ ~BlankAt(1)
    /\ seen = << 1 >> /\ PrintedPositions(stdout) = {1} /\ start_idx = 2

\* the dispatch that returned made no drain and printed no header and no
\* message
NothingRendered ==
    /\ seen = <<>> /\ ~printed /\ ~trace_started
    /\ \A k \in DOMAIN stdout : stdout[k].kind \notin {"msg", "header"}
    /\ "DRAINED" \notin Range(phases)

\* C27: a dispatch without show_trace makes no drain and prints no message; when
\* it succeeds the offset stored for its thread is the length of the result's
\* message sequence and no message of the thread lies at or beyond it, so that
\* the drains of a later dispatch, which start at the stored offset, do not
\* print the messages of this turn.
C27_SilentDispatchAdvancesOffset ==
    (DispatchDone /\ ~show_trace) =>
        /\ NothingRendered
        /\ ret.status = "ok" =>
              /\ thread_id \in DOMAIN history_offsets
              /\ history_offsets[thread_id] = Len(result_box.messages)
              /\ StartOffset(history_offsets, thread_id) >= Len(get_messages(thread_id))

\* C28: when a dispatch that started the spinner returns, with a result or a
\* failure, with show_trace or without, whether a message was printed or not,
\* stop() was called exactly once and the animation thread has ended, and it
\* had ended before the final drain was made and before the result or error
\* line was printed; while the dispatch is in its loop the thread is alive
\* exactly as long as the flag says so and stop() was called at most once.
C28_SpinnerStoppedOnceBeforeFinalOutput ==
    /\ DispatchDone =>
          /\ spinner.stops = 1 /\ spinner.stop_event /\ ~spinner.alive
          /\ spinner.stopped_in \in
                {<< "EXECUTOR_RUNNING" >>,
                 << "EXECUTOR_RUNNING", "EXECUTOR_SUCCEEDED" >>,
                 << "EXECUTOR_RUNNING", "EXECUTOR_FAILED" >>}
          /\ "DONE" \in Range(phases)
          /\ stdout[Len(stdout)].kind \in {"result", "error"}
    /\ pc = "poll" =>
          /\ spinner.alive = spinner_active
          /\ spinner.stops = (IF spinner_active THEN 0 ELSE 1)

\* a dispatch with show_trace whose agent raised without a message before:
\* the spinner was stopped by lines 92-93, the final drain found nothing
C28_Witness ==
    /\ DispatchDone /\ show_trace /\ result_box.kind = "error"
    /\ seen = <<>> /\ "DRAINED" \in Range(phases)
    /\ spinner.stops = 1
    /\ spinner.stopped_in = << "EXECUTOR_RUNNING", "EXECUTOR_FAILED" >>

\* the result of the agent has no message sequence, or an empty one
WithoutMessages == result_box.kind \in {"output", "empty", "messages"} /\ result_box.messages = <<>>

====
